---- MODULE Spec2Model ----
(***************************************************************************)
(* ya-regex: Thompson construction (nfa.rs), NFA simulation (regex.rs) and *)
(* subset construction (dfa.rs), modelled as a state machine over a        *)
(* bounded set of ASTs and input strings.                                  *)
(***************************************************************************)
EXTENDS Integers, Sequences, FiniteSets, TLC

\* ------------------------------------------------------------------ bounds
\* The alphabet of the patterns and of the input strings.
Chars == {"a", "b"}
\* Spec: ASTs of at most MaxNodes nodes, input strings of at most MaxLen chars.
MaxNodes == 5
MaxLen == 3
\* SpecHash: ASTs of at most MaxHashNodes nodes (large enough for two state
\* sets with the same id product, and for a product beyond u32).
MaxHashNodes == 8
\* SpecClosure: ASTs of at most MaxClosureNodes nodes, every set of NFA states.
MaxClosureNodes == 4

\* u32 values (the product in NfaStateSet::hash) are kept as two 16-bit limbs,
\* hi * Limb + lo, so that the arithmetic stays exact.
Limb == 2 ^ 16

\* ------------------------------------------------------------ parser::Node
CharNode(c) == [kind |-> "Char", c |-> c]
ConcatNode(n1, n2) == [kind |-> "Concat", n1 |-> n1, n2 |-> n2]
OrNode(n1, n2) == [kind |-> "Or", n1 |-> n1, n2 |-> n2]
RepeatNode(n) == [kind |-> "Repeat", n |-> n]

\* All ASTs of exactly k nodes over Chars.
RECURSIVE NodesOfSize(_)
NodesOfSize(k) ==
    IF k = 1 THEN {CharNode(c) : c \in Chars}
    ELSE {RepeatNode(n) : n \in NodesOfSize(k - 1)}
         \cup UNION {
              LET L == NodesOfSize(i)
                  R == NodesOfSize(k - 1 - i)
              IN  {ConcatNode(l, r) : l \in L, r \in R}
                  \cup {OrNode(l, r) : l \in L, r \in R}
              : i \in 1..(k - 2)}

NodesUpTo(k) == UNION {NodesOfSize(i) : i \in 1..k}

\* All strings of length at most n over Chars.
StringsUpTo(n) == UNION {[1..i -> Chars] : i \in 0..n}

\* ------------------------------------------------------ std HashMap (nfa)
EmptyMap == [x \in {} |-> {}]
\* HashMap::insert: sets (or replaces) the entry of key k.
MapInsert(m, k, v) == [x \in DOMAIN m \cup {k} |-> IF x = k THEN v ELSE m[x]]
\* HashMap::extend: every entry of m2 is inserted, replacing m's on equal keys.
MapExtend(m, m2) ==
    [x \in DOMAIN m \cup DOMAIN m2 |-> IF x \in DOMAIN m2 THEN m2[x] ELSE m[x]]
\* A map of one entry.
MapOf(k, v) == MapInsert(EmptyMap, k, v)

\* NfaTrans::Epsilon; NfaTrans::Char(c) is the character c itself.
Epsilon == "eps"

\* ------------------------------------------------------------ nfa.rs: Env
\* Env { count }, plus the history of the ids handed out (issued).
EnvNew == [count |-> 0, issued |-> <<>>]

\* A plausible slip: the counter is read but never incremented.
EnvNextStuck(env) == [env |-> [count |-> env.count,
                                issued |-> Append(env.issued, env.count)],
                      id |-> env.count]

\* Env::next: increments the counter and returns it as the new state id.
EnvNext(env) ==
    LET c == env.count + 1
    IN  [env |-> [count |-> c, issued |-> Append(env.issued, c)], id |-> c]

\* ------------------------------------------------------------ nfa.rs: Nfa
RECURSIVE New(_, _)

\* Nfa::new_char
NewChar(c, env) ==
    LET s == EnvNext(env)
        a == EnvNext(s.env)
    IN  [start |-> s.id,
         states |-> MapInsert(EmptyMap, s.id, MapOf(c, {a.id})),
         accept |-> a.id,
         env |-> a.env]

\* Nfa::new_concat
NewConcat(n1, n2, env) ==
    LET s == EnvNext(env)
        a == EnvNext(s.env)
        nfa1 == New(n1, a.env)
        nfa2 == New(n2, nfa1.env)
        st1 == MapInsert(EmptyMap, s.id, MapOf(Epsilon, {nfa1.start}))
        st2 == MapInsert(st1, nfa1.accept, MapOf(Epsilon, {nfa2.start}))
        st3 == MapInsert(st2, nfa2.accept, MapOf(Epsilon, {a.id}))
    IN  [start |-> s.id,
         states |-> MapExtend(MapExtend(st3, nfa1.states), nfa2.states),
         accept |-> a.id,
         env |-> nfa2.env]

\* A plausible slip: the alternation enters only its left branch.
NewOrLeftOnly(n1, n2, env) ==
    LET s == EnvNext(env)
        a == EnvNext(s.env)
        nfa1 == New(n1, a.env)
        nfa2 == New(n2, nfa1.env)
        st1 == MapInsert(EmptyMap, s.id, MapOf(Epsilon, {nfa1.start}))
        st2 == MapInsert(st1, nfa1.accept, MapOf(Epsilon, {a.id}))
        st3 == MapInsert(st2, nfa2.accept, MapOf(Epsilon, {a.id}))
    IN  [start |-> s.id,
         states |-> MapExtend(MapExtend(st3, nfa1.states), nfa2.states),
         accept |-> a.id,
         env |-> nfa2.env]

\* Nfa::new_or
NewOr(n1, n2, env) ==
    LET s == EnvNext(env)
        a == EnvNext(s.env)
        nfa1 == New(n1, a.env)
        nfa2 == New(n2, nfa1.env)
        st1 == MapInsert(EmptyMap, s.id, MapOf(Epsilon, {nfa1.start, nfa2.start}))
        st2 == MapInsert(st1, nfa1.accept, MapOf(Epsilon, {a.id}))
        st3 == MapInsert(st2, nfa2.accept, MapOf(Epsilon, {a.id}))
    IN  [start |-> s.id,
         states |-> MapExtend(MapExtend(st3, nfa1.states), nfa2.states),
         accept |-> a.id,
         env |-> nfa2.env]

\* A plausible slip: the loop-back row is attached to the repetition's own
\* accept state instead of the inner fragment's.
NewRepeatLoopFromOwnAccept(n, env) ==
    LET s == EnvNext(env)
        a == EnvNext(s.env)
        nfa == New(n, a.env)
        st1 == MapInsert(EmptyMap, s.id, MapOf(Epsilon, {a.id, nfa.start}))
        st2 == MapInsert(st1, a.id, MapOf(Epsilon, {s.id, a.id}))
        st3 == MapInsert(st2, nfa.accept, MapOf(Epsilon, {a.id}))
    IN  [start |-> s.id,
         states |-> MapExtend(st3, nfa.states),
         accept |-> a.id,
         env |-> nfa.env]

\* A plausible slip: the inner accept only exits, the loop-back edge is missing.
NewRepeatNoLoopBack(n, env) ==
    LET s == EnvNext(env)
        a == EnvNext(s.env)
        nfa == New(n, a.env)
        st1 == MapInsert(EmptyMap, s.id, MapOf(Epsilon, {a.id, nfa.start}))
        st2 == MapInsert(st1, nfa.accept, MapOf(Epsilon, {a.id}))
    IN  [start |-> s.id,
         states |-> MapExtend(st2, nfa.states),
         accept |-> a.id,
         env |-> nfa.env]

\* Nfa::new_repeat: the loop-back edge of the inner accept goes to the NEW start.
NewRepeat(n, env) ==
    LET s == EnvNext(env)
        a == EnvNext(s.env)
        nfa == New(n, a.env)
        st1 == MapInsert(EmptyMap, s.id, MapOf(Epsilon, {a.id, nfa.start}))
        st2 == MapInsert(st1, nfa.accept, MapOf(Epsilon, {s.id, a.id}))
    IN  [start |-> s.id,
         states |-> MapExtend(st2, nfa.states),
         accept |-> a.id,
         env |-> nfa.env]

\* Nfa::new
New(n, env) ==
    CASE n.kind = "Char" -> NewChar(n.c, env)
      [] n.kind = "Concat" -> NewConcat(n.n1, n.n2, env)
      [] n.kind = "Or" -> NewOr(n.n1, n.n2, env)
      [] n.kind = "Repeat" -> NewRepeat(n.n, env)

\* impl From<Node> for Nfa: the Env is dropped, the Nfa { start, states, accept }
\* is kept.
NfaFrom(value) ==
    LET f == New(value, EnvNew)
    IN  [start |-> f.start, states |-> f.states, accept |-> f.accept]

\* ------------------------------------- regex.rs: the epsilon-closure engine
\* self.states().get(s) and then transs.get(trans): the destinations of the
\* edges labelled trans that leave s, empty when either lookup is None.
Targets(nfa, s, trans) ==
    IF s \in DOMAIN nfa.states /\ trans \in DOMAIN nfa.states[s]
    THEN nfa.states[s][trans]
    ELSE {}

\* Nfa::transit_epsilon: one epsilon hop from every state of the set.
TransitEpsilon(nfa, states) == UNION {Targets(nfa, s, Epsilon) : s \in states}

\* The while loop of Nfa::epsilon_next.
RECURSIVE EpsilonLoop(_, _, _)
EpsilonLoop(nfa, nexts, new) ==
    IF new = {} THEN nexts
    ELSE LET next_new == TransitEpsilon(nfa, new)
         IN  EpsilonLoop(nfa, nexts \cup next_new, next_new \ nexts)

\* A plausible slip: a single epsilon hop instead of the fixpoint.
EpsilonNextOneHop(nfa, states) == states \cup TransitEpsilon(nfa, states)

\* Nfa::epsilon_next
EpsilonNext(nfa, states) == EpsilonLoop(nfa, states, states)

\* Nfa::next
NfaNext(nfa, state, trans) ==
    LET e_starts == EpsilonNext(nfa, {state})
    IN  IF trans = Epsilon THEN e_starts
        ELSE EpsilonNext(nfa, UNION {Targets(nfa, s, trans) : s \in e_starts})

\* Nfa::states_next
StatesNext(nfa, states, trans) == UNION {NfaNext(nfa, s, trans) : s \in states}

\* ------------------------------------------------------ regex.rs: Regex
\* The for loop of Regex::matches from character i on, with its early return.
RECURSIVE MatchLoop(_, _, _, _)
MatchLoop(nfa, pattern, i, states) ==
    IF i > Len(pattern) THEN nfa.accept \in states
    ELSE LET st == StatesNext(nfa, states, pattern[i])
         IN  IF st = {} THEN FALSE ELSE MatchLoop(nfa, pattern, i + 1, st)

\* Regex::matches: the frontier starts as the set holding nfa.start alone.
Matches(nfa, pattern) == MatchLoop(nfa, pattern, 1, {nfa.start})


\* --------------------------------------------- dfa.rs: NfaStateSet, hashing
\* One step of `mul *= s.as_u32()` in u32: the wrapped product, and whether
\* the multiplication overflowed (now or before).
U32Mul(acc, s) ==
    LET pl == acc.lo * s
        ph == acc.hi * s + (pl \div Limb)
    IN  [hi |-> ph % Limb, lo |-> pl % Limb, overflow |-> acc.overflow \/ ph >= Limb]

\* The for loop of NfaStateSet::hash over the members still to multiply; s is
\* the member of this iteration and a the value of mul before it.
RECURSIVE MulLoop(_, _)
MulLoop(ids, acc) ==
    IF ids = {} THEN acc
    ELSE CHOOSE r \in {MulLoop(ids \ {s}, U32Mul(a, s)) :
                         s \in {CHOOSE x \in ids : \A y \in ids : x <= y},
                         a \in {acc}} : TRUE

\* impl Hash for NfaStateSet: mul starts at 1 and is multiplied by every member.
HashMul(ns) == MulLoop(ns, [hi |-> 0, lo |-> 1, overflow |-> FALSE])

\* The value fed to the hasher (the wrapped product).
HashKey(ns) == <<HashMul(ns).hi, HashMul(ns).lo>>

\* A plausible slip: two keys are the same key as soon as their hashes agree.
KeyEqHashOnly(k1, k2) == HashKey(k1) = HashKey(k2)

\* Key identity of NfaStateSet in a HashSet/HashMap: the hash selects the
\* bucket, the derived PartialEq/Eq (set equality) decides.
KeyEq(k1, k2) == HashKey(k1) = HashKey(k2) /\ k1 = k2

\* HashSet<NfaStateSet>::insert
SetInsert(S, x) == IF \E y \in S : KeyEq(y, x) THEN S ELSE S \cup {x}

\* HashSet<NfaStateSet>::extend
RECURSIVE SetExtend(_, _)
SetExtend(S, T) ==
    IF T = {} THEN S
    ELSE LET x == CHOOSE x \in T : TRUE
         IN  SetExtend(SetInsert(S, x), T \ {x})

\* A plausible slip: the operands of the difference are swapped.
SetDifferenceSwapped(A, B) == {x \in B : ~ \E y \in A : KeyEq(y, x)}

\* HashSet<NfaStateSet>::difference
SetDifference(A, B) == {x \in A : ~ \E y \in B : KeyEq(y, x)}

\* Nfa::transition_map_of: for every character labelling an edge out of the
\* set, the union of the destinations of these edges (no epsilon closure).
TransitionMapOf(nfa, states) ==
    LET from(c) == {s \in states : Targets(nfa, s, c) # {}}
        cs == {c \in Chars : from(c) # {}}
    IN  [c \in cs |-> UNION {Targets(nfa, s, c) : s \in from(c)}]

\* The values of a transition map.
Values(m) == {m[t] : t \in DOMAIN m}

\* ------------------------------------------------------------ dfa.rs: Env
\* Env.state_map: the entries (key, (transs, id)) of the HashMap.
\* state_map.get(nstat)
MapGet(state_map, nstat) == {e \in state_map : KeyEq(e.key, nstat)}

\* Env::insert
EnvInsert(state_map, nstat, transs) ==
    IF MapGet(state_map, nstat) # {}
    THEN {IF KeyEq(e.key, nstat)
          THEN [e EXCEPT !.transs = MapExtend(e.transs, transs)]
          ELSE e : e \in state_map}
    ELSE state_map \cup
         {[key |-> nstat, transs |-> transs, id |-> Cardinality(state_map)]}

\* Env::into_dfa_states: one row per entry, the destinations replaced by the
\* ids state_map.get gives them.
IntoDfaStates(state_map) ==
    [ds \in {e.id : e \in state_map} |->
        LET e == CHOOSE e \in state_map : e.id = ds
        IN  [t \in DOMAIN e.transs |->
                (CHOOSE d \in MapGet(state_map, e.transs[t]) : TRUE).id]]

\* ----------------------------------------------- spec 4.4: matches_dfa
\* The DFA matcher of the specification (the source has none): follow the
\* recorded transition per character, reject on a missing one.
RECURSIVE DfaMatchLoop(_, _, _, _)
DfaMatchLoop(d, pattern, i, cur) ==
    IF i > Len(pattern) THEN cur \in d.accepts
    ELSE IF cur \in DOMAIN d.states /\ pattern[i] \in DOMAIN d.states[cur]
         THEN DfaMatchLoop(d, pattern, i + 1, d.states[cur][pattern[i]])
         ELSE FALSE

MatchesDfa(d, pattern) == DfaMatchLoop(d, pattern, 1, d.start)

\* ------------------------------------------------------------------ state
VARIABLES
    pc,               \* where the pipeline stands
    ast,              \* the parser::Node given to Nfa::from
    nfa,              \* the Nfa built from it
    input,            \* the string given to a matcher
    result,           \* what Regex::matches returned
    overflow_checks,  \* the build traps on integer overflow (debug profile)
    start_set,        \* Dfa::from: start
    nstats,           \* Dfa::from: nstats
    new,              \* Dfa::from: new
    todo,             \* Dfa::from: the members of new the for loop has yet to visit
    nexts,            \* Dfa::from: nexts
    state_map,        \* Dfa::from: env.state_map
    dfa,              \* the Dfa built
    dresult,          \* what matches_dfa returned
    probe,            \* the state set given to Nfa::epsilon_next
    closed            \* what Nfa::epsilon_next returned for it

vars == <<pc, ast, nfa, input, result, overflow_checks, start_set, nstats, new,
          todo, nexts, state_map, dfa, dresult, probe, closed>>

matchVars == <<input, result, dresult>>
closureVars == <<probe, closed>>
dfaVars == <<overflow_checks, start_set, nstats, new, todo, nexts, state_map, dfa>>

NoDfa == [start |-> 0, states |-> EmptyMap, accepts |-> {}]

InitWith(asts) ==
    /\ pc = "ast"
    /\ ast \in asts
    /\ nfa = [start |-> 0, states |-> EmptyMap, accept |-> 0]
    /\ input = <<>>
    /\ result = FALSE
    /\ overflow_checks = FALSE
    /\ start_set = {}
    /\ nstats = {}
    /\ new = {}
    /\ todo = {}
    /\ nexts = {}
    /\ state_map = {}
    /\ dfa = NoDfa
    /\ dresult = FALSE
    /\ probe = {}
    /\ closed = {}

Init == InitWith(NodesUpTo(MaxNodes))

\* Nfa::from(ast)
Compile ==
    /\ pc = "ast"
    /\ nfa' = NfaFrom(ast)
    /\ pc' = "nfa"
    /\ UNCHANGED <<closureVars, ast, matchVars, dfaVars>>

\* Regex { nfa }.matches(pattern)
Match ==
    /\ pc = "nfa"
    /\ \E pattern \in StringsUpTo(MaxLen) :
          /\ input' = pattern
          /\ result' = Matches(nfa, pattern)
    /\ pc' = "matched"
    /\ UNCHANGED <<closureVars, ast, nfa, dresult, dfaVars>>

\* Dfa::from(nfa) up to the while loop: start is the closure of nfa.start; it
\* is hashed by nstats.insert, which traps in a build with overflow checks.
DfaBegin ==
    /\ pc = "nfa"
    /\ \E checks \in BOOLEAN :
          LET start == NfaNext(nfa, nfa.start, Epsilon)
          IN  /\ overflow_checks' = checks
              /\ start_set' = start
              /\ IF checks /\ HashMul(start).overflow
                 THEN /\ pc' = "panic"
                      /\ UNCHANGED <<nstats, new>>
                 ELSE /\ pc' = "while"
                      /\ nstats' = SetInsert({}, start)
                      /\ new' = SetInsert({}, start)
    /\ UNCHANGED <<closureVars, ast, nfa, matchVars, todo, nexts, state_map, dfa>>

\* `while !new.is_empty()`: the loop is entered, nexts is created empty and
\* the for loop starts on the members of new.
DfaWhile ==
    /\ pc = "while"
    /\ new # {}
    /\ nexts' = {}
    /\ todo' = new
    /\ pc' = "for"
    /\ UNCHANGED <<closureVars, ast, nfa, matchVars, overflow_checks, start_set, nstats, new,
                   state_map, dfa>>

\* One iteration of `for ns in new.into_iter()`, in any order: the values of
\* the transition map are hashed into nexts, ns is registered in env.
DfaVisit ==
    /\ pc = "for"
    /\ \E ns \in todo :
          LET trans_map == TransitionMapOf(nfa, ns)
          IN  /\ todo' = todo \ {ns}
              /\ IF overflow_checks /\ \E v \in Values(trans_map) : HashMul(v).overflow
                 THEN /\ pc' = "panic"
                      /\ UNCHANGED <<nexts, state_map>>
                 ELSE /\ pc' = "for"
                      /\ nexts' = SetExtend(nexts, SetExtend({}, Values(trans_map)))
                      /\ state_map' = EnvInsert(state_map, ns, trans_map)
    /\ UNCHANGED <<closureVars, ast, nfa, matchVars, overflow_checks, start_set, nstats, new, dfa>>

\* The end of the loop body: new = nexts - nstats, nstats.extend(new).
DfaEndFor ==
    /\ pc = "for"
    /\ todo = {}
    /\ new' = SetExtend({}, SetDifference(nexts, nstats))
    /\ nstats' = SetExtend(nstats, new')
    /\ pc' = "while"
    /\ UNCHANGED <<closureVars, ast, nfa, matchVars, overflow_checks, start_set, todo, nexts,
                   state_map, dfa>>

\* The loop is left; the Dfa is assembled with an empty accepts set.
DfaFinish ==
    /\ pc = "while"
    /\ new = {}
    /\ dfa' = [start |-> (CHOOSE e \in MapGet(state_map, start_set) : TRUE).id,
               states |-> IntoDfaStates(state_map),
               accepts |-> {}]
    /\ pc' = "dfa"
    /\ UNCHANGED <<closureVars, ast, nfa, matchVars, overflow_checks, start_set, nstats, new,
                   todo, nexts, state_map>>

\* matches_dfa(dfa, pattern), and Regex::matches on the same pattern.
DfaMatch ==
    /\ pc = "dfa"
    /\ \E pattern \in StringsUpTo(MaxLen) :
          /\ input' = pattern
          /\ dresult' = MatchesDfa(dfa, pattern)
          /\ result' = Matches(nfa, pattern)
    /\ pc' = "dmatched"
    /\ UNCHANGED <<closureVars, ast, nfa, dfaVars>>

DfaNext == DfaBegin \/ DfaWhile \/ DfaVisit \/ DfaEndFor \/ DfaFinish

Next == Compile \/ Match \/ DfaNext \/ DfaMatch

Spec == Init /\ [][Next]_vars

\* The steps of the while loop of Dfa::from. The code is sequential: once
\* Dfa::from is running, its next step is taken.
DfaLoop == DfaWhile \/ DfaVisit \/ DfaEndFor \/ DfaFinish

SpecFair == Init /\ [][Compile \/ DfaBegin \/ DfaLoop]_vars /\ WF_vars(DfaLoop)

\* The subset construction alone, on larger ASTs.
InitHash == InitWith(NodesUpTo(MaxHashNodes))

NextHash == Compile \/ DfaNext

SpecHash == InitHash /\ [][NextHash]_vars

\* The state ids of an Nfa.
NfaStates(n) ==
    {n.start, n.accept} \cup DOMAIN n.states
        \cup UNION {UNION {n.states[s][t] : t \in DOMAIN n.states[s]} : s \in DOMAIN n.states}

\* nfa.epsilon_next(states), for any set of states of the Nfa.
Close ==
    /\ pc = "nfa"
    /\ \E states \in SUBSET NfaStates(nfa) :
          /\ probe' = states
          /\ closed' = EpsilonNext(nfa, states)
    /\ pc' = "closed"
    /\ UNCHANGED <<ast, nfa, matchVars, dfaVars>>

\* The closure engine alone, on every set of states.
InitClosure == InitWith(NodesUpTo(MaxClosureNodes))

NextClosure == Compile \/ Close

SpecClosure == InitClosure /\ [][NextClosure]_vars
\* ================================================================ claims
\* ---- helpers of the claims' formulas (the specification's vocabulary)
\* spec 4.2 step(S, c): close S, move on c, close again.
StepOf(n, S, c) ==
    EpsilonNext(n, UNION {Targets(n, s, c) : s \in EpsilonNext(n, S)})

\* spec 4.3: the frontier after the characters i.. of pattern.
RECURSIVE FrontierAfter(_, _, _, _)
FrontierAfter(n, pattern, i, frontier) ==
    IF i > Len(pattern) THEN frontier
    ELSE FrontierAfter(n, pattern, i + 1, StepOf(n, frontier, pattern[i]))

\* s splits into one or more consecutive non-empty pieces, each accepted by
\* Regex::matches on n.
RECURSIVE Decomposes(_, _)
Decomposes(n, s) ==
    \E k \in 1..Len(s) :
        /\ Matches(n, SubSeq(s, 1, k))
        /\ (k = Len(s) \/ Decomposes(n, SubSeq(s, k + 1, Len(s))))

\* s = s1 ++ s2 with s1 accepted on n1 and s2 accepted on n2.
SplitMatches(n1, n2, s) ==
    \E k \in 0..Len(s) :
        /\ Matches(n1, SubSeq(s, 1, k))
        /\ Matches(n2, SubSeq(s, k + 1, Len(s)))

\* The state sets Dfa::from came across: start and every destination set.
Discovered == {start_set} \cup UNION {Values(e.transs) : e \in state_map}

\* C1: the DFA matcher on Dfa::from(Nfa::from(ast)) returns what Regex::matches
\* returns on Nfa::from(ast), for every AST and input.
C1_DfaAgreesWithNfa == pc = "dmatched" => dresult = result

\* C2: Regex::matches on Repeat(p) accepts s iff s is empty or s splits into
\* one or more pieces each accepted on p.
C2_RepetitionLaw ==
    (pc = "matched" /\ ast.kind = "Repeat")
        => (result = (input = <<>> \/ Decomposes(NfaFrom(ast.n), input)))

\* C3: Regex::matches on Concat(p, q) accepts s iff s = s1 ++ s2 with s1
\* accepted on p and s2 accepted on q.
C3_ConcatenationLaw ==
    (pc = "matched" /\ ast.kind = "Concat")
        => (result = SplitMatches(NfaFrom(ast.n1), NfaFrom(ast.n2), input))

\* C4: Regex::matches on Or(p, q) accepts s iff it accepts s on p or on q.
C4_AlternationLaw ==
    (pc = "matched" /\ ast.kind = "Or")
        => (result = (Matches(NfaFrom(ast.n1), input)
                      \/ Matches(NfaFrom(ast.n2), input)))

\* C4 witness: an alternation accepted through its right branch only.
C4_Witness ==
    /\ pc = "matched"
    /\ ast.kind = "Or"
    /\ result
    /\ ~ Matches(NfaFrom(ast.n1), input)
    /\ Matches(NfaFrom(ast.n2), input)

\* C5: a DFA state is in dfa.accepts iff the NFA state set it was created
\* from contains nfa.accept.
C5_AcceptMarking ==
    pc = "dfa" =>
        \A e \in state_map : (e.id \in dfa.accepts) <=> (nfa.accept \in e.key)

\* C7: Regex::matches(input) is whether nfa.accept is in the frontier that
\* starts as closure({nfa.start}) and is replaced by step(frontier, c) per
\* character; on the empty input, whether nfa.accept is in closure({nfa.start}).
C7_MatchesIsFrontierMembership ==
    pc = "matched" =>
        (result = (nfa.accept \in
                    FrontierAfter(nfa, input, 1, EpsilonNext(nfa, {nfa.start}))))

\* C9: every state set registered as a DFA state is epsilon-closed, and every
\* recorded destination on c is step(S, c), the closure of the c-successors.
C9_RegisteredSetsClosed ==
    pc = "dfa" =>
        \A e \in state_map :
            /\ e.key = EpsilonNext(nfa, e.key)
            /\ \A c \in DOMAIN e.transs : e.transs[c] = StepOf(nfa, e.key, c)
\* C6: two discovered state sets get the same DfaState id iff they hold the
\* same NFA state ids: every discovered set is registered under its own id
\* with its own transition row, also when another set has the same hash key.
C6_SetIdentityByValue ==
    pc = "dfa" =>
        /\ \A X \in Discovered :
              \E e \in state_map :
                  /\ e.key = X
                  /\ e.transs = TransitionMapOf(nfa, X)
                  /\ e.id \in DOMAIN dfa.states
                  /\ DOMAIN dfa.states[e.id] = DOMAIN e.transs
        /\ \A e1, e2 \in state_map : (e1.id = e2.id) <=> (e1.key = e2.key)
        /\ Cardinality(DOMAIN dfa.states) = Cardinality(Discovered)

\* C6 witness: a finished Dfa whose discovered sets include two different
\* sets with the same hash key, registered under different ids.
C6_Witness ==
    /\ pc = "dfa"
    /\ \E e1, e2 \in state_map :
          /\ e1.key # e2.key
          /\ HashKey(e1.key) = HashKey(e2.key)
          /\ e1.id # e2.id

\* C8: Dfa::from never fails, and the product of the member ids of a hashed
\* state set never exceeds 2^32 - 1.
C8_HashProductFitsU32 ==
    /\ pc # "panic"
    /\ \A ns \in nstats \cup nexts : ~ HashMul(ns).overflow

\* ---- helpers of C10
\* The edges of a transition table, as (source, label, destination).
Edges(m) ==
    UNION {UNION {{<<s, t, d>> : d \in m[s][t]} : t \in DOMAIN m[s]} : s \in DOMAIN m}

\* The state ids of a fragment.
Ids(f) == {f.start, f.accept} \cup DOMAIN f.states \cup {e[3] : e \in Edges(f.states)}

\* At node n compiled from env, and at every node below it: the ids of the
\* sub-fragments are disjoint from each other and from the node's own start
\* and accept, the keys the node inserts are keys of no sub-fragment table, and
\* the node's table holds every edge of the sub-fragments and every wiring edge.
RECURSIVE FragmentsMerge(_, _)
FragmentsMerge(n, env) ==
    LET s == EnvNext(env)
        a == EnvNext(s.env)
        f == New(n, env)
    IN  CASE n.kind = "Char" -> f.start # f.accept
          [] n.kind = "Repeat" ->
               LET f1 == New(n.n, a.env)
               IN  /\ {f.start, f.accept} \cap Ids(f1) = {}
                   /\ f.start # f.accept
                   /\ {f.start, f1.accept} \cap DOMAIN f1.states = {}
                   /\ Edges(f1.states) \subseteq Edges(f.states)
                   /\ {<<f.start, Epsilon, f.accept>>, <<f.start, Epsilon, f1.start>>,
                       <<f1.accept, Epsilon, f.start>>,
                       <<f1.accept, Epsilon, f.accept>>} \subseteq Edges(f.states)
                   /\ FragmentsMerge(n.n, a.env)
          [] OTHER ->
               LET f1 == New(n.n1, a.env)
                   f2 == New(n.n2, f1.env)
               IN  /\ Ids(f1) \cap Ids(f2) = {}
                   /\ {f.start, f.accept} \cap (Ids(f1) \cup Ids(f2)) = {}
                   /\ f.start # f.accept
                   /\ {f.start, f1.accept, f2.accept}
                        \cap (DOMAIN f1.states \cup DOMAIN f2.states) = {}
                   /\ Edges(f1.states) \cup Edges(f2.states) \subseteq Edges(f.states)
                   /\ <<f2.accept, Epsilon, f.accept>> \in Edges(f.states)
                   /\ <<f.start, Epsilon, f1.start>> \in Edges(f.states)
                   /\ IF n.kind = "Concat"
                      THEN <<f1.accept, Epsilon, f2.start>> \in Edges(f.states)
                      ELSE /\ <<f1.accept, Epsilon, f.accept>> \in Edges(f.states)
                           /\ <<f.start, Epsilon, f2.start>> \in Edges(f.states)
                   /\ FragmentsMerge(n.n1, a.env)
                   /\ FragmentsMerge(n.n2, f1.env)

\* C10: within one Nfa::from every Env::next returns an id greater than all
\* ids returned before; sub-fragments are id-disjoint at every node, no merge
\* overwrites an entry and every edge survives the merges.
C10_FreshIdsDisjointFragments ==
    pc = "nfa" =>
        LET issued == New(ast, EnvNew).env.issued
        IN  /\ \A i, j \in 1..Len(issued) : i < j => issued[i] < issued[j]
            /\ FragmentsMerge(ast, EnvNew)
            /\ Edges(nfa.states) = Edges(New(ast, EnvNew).states)

\* C10 witness: a compiled binary node both of whose operands are themselves
\* composite, so that two non-trivial tables were merged.
C10_Witness ==
    /\ pc = "nfa"
    /\ ast.kind \in {"Concat", "Or"}
    /\ ast.n1.kind # "Char"
    /\ ast.n2.kind # "Char"
    /\ Cardinality(DOMAIN nfa.states) >= 7
\* ---- helpers of C11
\* The operands of a node.
Operands(n) ==
    CASE n.kind = "Char" -> <<>>
      [] n.kind = "Repeat" -> <<n.n>>
      [] OTHER -> <<n.n1, n.n2>>

\* The fragment Nfa::new returns has a start other than its accept, and its
\* accept has no entry in its table.
AcceptIsSink(f) == f.start # f.accept /\ f.accept \notin DOMAIN f.states

\* AcceptIsSink for the fragment of n compiled from env and for every fragment
\* below it; in the enclosing fragment the former accept of an operand has
\* epsilon edges only, and the operand's own rows are kept as they were.
RECURSIVE FragmentsWellFormed(_, _)
FragmentsWellFormed(n, env) ==
    LET f == New(n, env)
        env1 == EnvNext(EnvNext(env).env).env
        ops == Operands(n)
        f1 == New(ops[1], env1)
        WiredInto(g) ==
            /\ g.accept \in DOMAIN f.states
            /\ DOMAIN f.states[g.accept] = {Epsilon}
            /\ \A k \in DOMAIN g.states : f.states[k] = g.states[k]
    IN  /\ AcceptIsSink(f)
        /\ Len(ops) >= 1 => (WiredInto(f1) /\ FragmentsWellFormed(ops[1], env1))
        /\ Len(ops) = 2 => (WiredInto(New(ops[2], f1.env))
                            /\ FragmentsWellFormed(ops[2], f1.env))

\* C11: every fragment Nfa::new returns, at every depth, has a start different
\* from its accept and an accept without outgoing transitions; edges out of a
\* former accept come from the enclosing node's composition only.
C11_AcceptHasNoOutgoingEdges ==
    pc = "nfa" =>
        /\ FragmentsWellFormed(ast, EnvNew)
        /\ nfa.start # nfa.accept
        /\ Targets(nfa, nfa.accept, Epsilon) = {}
        /\ \A c \in Chars : Targets(nfa, nfa.accept, c) = {}

\* C11 witness: a compiled repetition of a composite node, whose inner accept
\* got its outgoing edges from the repetition.
C11_Witness ==
    /\ pc = "nfa"
    /\ ast.kind = "Repeat"
    /\ ast.n.kind # "Char"
    /\ \E s \in DOMAIN nfa.states : nfa.start \in Targets(nfa, s, Epsilon)
\* ---- helper of C12
\* The fragment of the operand of a top-level Repeat, as Nfa::new_repeat
\* compiles it (after the repetition took its own start and accept).
InnerFragment == New(ast.n, EnvNext(EnvNext(EnvNew).env).env)

\* C12 as claimed: in Repeat(inner) the epsilon successors of S are {A, Fs}
\* and those of Fa are {Fs, A}: the loop-back edge goes to the inner start Fs.
C12_LoopBackToInnerStart ==
    (pc = "nfa" /\ ast.kind = "Repeat") =>
        /\ Targets(nfa, nfa.start, Epsilon) = {nfa.accept, InnerFragment.start}
        /\ Targets(nfa, InnerFragment.accept, Epsilon)
             = {InnerFragment.start, nfa.accept}

\* C12 as amended: in Repeat(inner) the epsilon successors of S are {A, Fs}
\* and those of Fa are {S, A}: the loop-back edge goes to the new start S,
\* one epsilon step before Fs.
C12_LoopBackToNewStart ==
    (pc = "nfa" /\ ast.kind = "Repeat") =>
        /\ Targets(nfa, nfa.start, Epsilon) = {nfa.accept, InnerFragment.start}
        /\ Targets(nfa, InnerFragment.accept, Epsilon) = {nfa.start, nfa.accept}
        /\ InnerFragment.start \notin {nfa.start, nfa.accept}

\* C12 witness: a compiled repetition whose inner accept loops back.
C12_Witness ==
    /\ pc = "nfa"
    /\ ast.kind = "Repeat"
    /\ nfa.start \in Targets(nfa, InnerFragment.accept, Epsilon)
    /\ InnerFragment.start \in Targets(nfa, nfa.start, Epsilon)
\* ---- helpers of C13
\* The states reachable from S by at most k epsilon transitions.
RECURSIVE ReachWithin(_, _, _)
ReachWithin(n, S, k) ==
    IF k = 0 THEN S
    ELSE LET R == ReachWithin(n, S, k - 1)
         IN  R \cup {t \in NfaStates(n) : \E s \in R : t \in Targets(n, s, Epsilon)}

\* The states reachable from S by zero or more epsilon transitions.
Reach(n, S) == ReachWithin(n, S, Cardinality(NfaStates(n)))

\* C13: epsilon_next(S) is the set of states reachable from S by zero or more
\* epsilon transitions (a superset of S, closed, nothing unreachable in it);
\* it is idempotent, and monotonic in S.
C13_EpsilonNextIsClosure ==
    pc = "closed" =>
        /\ closed = Reach(nfa, probe)
        /\ probe \subseteq closed
        /\ TransitEpsilon(nfa, closed) \subseteq closed
        /\ EpsilonNext(nfa, closed) = closed
        /\ \A T \in SUBSET probe : EpsilonNext(nfa, T) \subseteq closed

\* C13 witness: the closure of the inner accept of a repetition, which runs
\* round the epsilon cycle and needs more than one hop to reach the inner start.
C13_Witness ==
    /\ pc = "closed"
    /\ ast.kind = "Repeat"
    /\ probe = {InnerFragment.accept}
    /\ InnerFragment.start \in closed
    /\ InnerFragment.start \notin TransitEpsilon(nfa, probe)
    /\ InnerFragment.accept \in TransitEpsilon(nfa, closed)
\* ---- helper of C14
\* The state sets env.insert has registered.
Registered == {e.key : e \in state_map}

\* C14: the worklist loop of Dfa::from terminates: a set still to be visited
\* is never one already registered (each distinct set is processed at most
\* once), every pass leaves in `new` only sets not yet in nstats, and a
\* running loop eventually ends.
C14_WorklistTerminates ==
    /\ [](todo \cap Registered = {})
    /\ [][(pc = "for" /\ pc' = "while") => (new' \cap nstats = {})]_vars
    /\ (pc \in {"while", "for"}) ~> (pc \in {"dfa", "panic"})

\* C14 witness: a finished Dfa::from whose loop ran more than one pass and
\* registered every set it came across exactly once.
C14_Witness ==
    /\ pc = "dfa"
    /\ new = {}
    /\ Cardinality(state_map) >= 3
    /\ Registered = nstats
    /\ Cardinality(Registered) = Cardinality(state_map)
====
